---- MODULE Spec2Model ----
(***************************************************************************)
(* Model of scripts/validate.py: the document loader, the schema resolver, *)
(* the structural checker, the two domain validators, the conformance      *)
(* tier, the single-artifact engine (validate_artifact / validate_file)    *)
(* and the batch driver (validate_all), with main's exit codes.            *)
(*                                                                         *)
(* JSON values are records [type, text]: text is the sequence of pieces of *)
(* a string (so that endswith('Z') and value[:-1] can be computed) or the  *)
(* items of an array.  A message built by an f-string is the record        *)
(* [fmt, args]: the template and the interpolated values, in order.        *)
(* A Python exception that leaves a function is the field exc of what the  *)
(* function yields ("none" when it returns).                               *)
(***************************************************************************)
EXTENDS Integers, Sequences, FiniteSets, TLC

VARIABLES
    disk,            \* the file system: path -> file content
    artifacts_dir,   \* ARTIFACTS_DIR.exists()
    HAS_JSONSCHEMA,  \* whether `import jsonschema` succeeded
    argv,            \* sys.argv[1:] : [mode, artifact, schema]
    pc,              \* position of main
    result,          \* what the last validate_artifact call yielded
    prev,            \* what the call before it yielded
    runs,            \* number of validate_artifact calls made
    todo,            \* files of the rglob enumeration not yet visited
    visits,          \* path -> number of validate_file calls on it
    total,
    passed,
    failed,
    summary,         \* whether the "Summary:" line was printed
    exit_code        \* status handed to sys.exit (-1 while running)

vars == <<disk, artifacts_dir, HAS_JSONSCHEMA, argv, pc, result, prev, runs,
          todo, visits, total, passed, failed, summary, exit_code>>

-----------------------------------------------------------------------------
(* Bounds *)

MaxRuns == 2     \* invocations of `validate <artifact> [schema]` on one tree
MaxFiles == 3    \* JSON files under the artifacts root in a batch run

-----------------------------------------------------------------------------
(* JSON values *)

Absent == [type |-> "absent", text |-> <<>>]     \* key not in the dict
None == [type |-> "null", text |-> <<>>]
Str(pieces) == [type |-> "string", text |-> pieces]
Num(digits) == [type |-> "number", text |-> <<digits>>]
Arr(items) == [type |-> "array", text |-> items]

\* Python truthiness: None, "", 0 and [] are falsy
Truthy(v) ==
    CASE v.type = "string" -> v.text # <<>>
      [] v.type = "array" -> v.text # <<>>
      [] v.type = "number" -> v.text # <<"0">>
      [] OTHER -> FALSE

\* `value in valid_values` for a list of str
InList(v, list) ==
    /\ v.type = "string"
    /\ Len(v.text) = 1
    /\ \E i \in 1..Len(list) : list[i] = v.text[1]

Keys == {"agent", "stage", "status", "timestamp", "blocking_issues",
         "workflow_id", "execution_mode", "current_stage", "stages",
         "created_at", "updated_at", "required"}

\* a parsed document: a JSON object (dict) or a JSON array (list, here [])
Obj(assign) ==
    [kind |-> "object",
     fields |-> [k \in Keys |-> IF k \in DOMAIN assign THEN assign[k] ELSE Absent]]
EmptyArrayDoc == [kind |-> "array", fields |-> [k \in Keys |-> Absent]]

\* `field in data`
Has(data, field) == data.kind = "object" /\ data.fields[field] # Absent
\* data.get(field) / data[field] on a dict
Get(data, field) == IF data.fields[field] = Absent THEN None ELSE data.fields[field]

\* f-string results
Msg(fmt, args) == [fmt |-> fmt, args |-> args]
NoMsg == [fmt |-> "", args |-> <<>>]      \* a None returned in place of a str

\* what a function yields: its list, or the exception that leaves it
Returns(errors) == [errors |-> errors, exc |-> "none"]
Raises(exc) == [errors |-> <<>>, exc |-> exc]

-----------------------------------------------------------------------------
(* Configuration *)

\* a directory is the sequence of its components under ROOT_DIR
CONTRACTS_DIR == <<"L3 - Workflows & Contracts", "contracts">>
ARTIFACTS_DIR == <<"ARTIFACTS">>

ARTIFACT_SCHEMA_MAP ==
    [n \in {"product-requirements-packet.json", "architecture-handover-packet.json",
            "architecture-assessment.json", "frontend-implementation-report.json",
            "backend-implementation-report.json", "ai-implementation-report.json",
            "qa-test-report.json", "deployment-report.json",
            "stage-completion-signal.json", "workflow-state.json",
            "safety-review-report.json", "governance-review-report.json",
            "code-health-report.json", "orchestrator-log.json",
            "project-config.json"} |->
        CASE n = "product-requirements-packet.json" -> "pm-output-schema.json"
          [] n = "architecture-handover-packet.json" -> "architect-output-schema.json"
          [] n = "architecture-assessment.json" -> "architecture-assessment-schema.json"
          [] n = "frontend-implementation-report.json" -> "frontend-output-schema.json"
          [] n = "backend-implementation-report.json" -> "backend-output-schema.json"
          [] n = "ai-implementation-report.json" -> "ai-engineer-output-schema.json"
          [] n = "qa-test-report.json" -> "qa-output-schema.json"
          [] n = "deployment-report.json" -> "devops-output-schema.json"
          [] n = "stage-completion-signal.json" -> "stage-completion-signal-schema.json"
          [] n = "workflow-state.json" -> "workflow-state-schema.json"
          [] n = "safety-review-report.json" -> "safety-output-schema.json"
          [] n = "governance-review-report.json" -> "governance-output-schema.json"
          [] n = "code-health-report.json" -> "code-health-output-schema.json"
          [] n = "orchestrator-log.json" -> "controller-output-schema.json"
          [] n = "project-config.json" -> "project-config-schema.json"]

VALID_AGENTS ==
    <<"product_manager", "system_architect", "frontend_engineer",
      "backend_engineer", "ai_engineer", "qa_engineer", "devops_engineer",
      "safety_agent", "governance_agent", "code_health_agent">>

VALID_STAGES ==
    <<"requirements", "architecture", "frontend_implementation",
      "backend_implementation", "ai_implementation", "qa_testing",
      "deployment", "safety_review", "governance_review", "code_health_assessment">>

VALID_STATUSES ==
    <<"completed", "completed_with_warnings", "failed",
      "blocked", "requires_human_intervention">>

VALID_MODES == <<"full_system", "fast_feature">>

-----------------------------------------------------------------------------
(* Paths and files *)

Path(dir, name) == [dir |-> dir, name |-> name]
NoPath == [dir |-> <<>>, name |-> ""]          \* None in place of a Path

Missing == [st |-> "missing", doc |-> EmptyArrayDoc]
BadJson == [st |-> "badjson", doc |-> EmptyArrayDoc]
Unreadable == [st |-> "unreadable", doc |-> EmptyArrayDoc]
Json(doc) == [st |-> "ok", doc |-> doc]

\* Path.exists()
exists(path) == path \in DOMAIN disk /\ disk[path].st # "missing"

load_json(filepath) ==
    LET f == IF filepath \in DOMAIN disk THEN disk[filepath] ELSE Missing IN
    CASE f.st = "ok" -> [data |-> f.doc, err |-> NoMsg]
      [] f.st = "badjson" ->
            [data |-> EmptyArrayDoc,
             err |-> Msg("Invalid JSON syntax: {e}", <<Str(<<"Expecting value">>)>>)]
      [] f.st = "missing" ->
            [data |-> EmptyArrayDoc,
             err |-> Msg("File not found: {filepath}",
                         <<Str(Append(filepath.dir, filepath.name))>>)]
      [] OTHER ->
            [data |-> EmptyArrayDoc,
             err |-> Msg("Error reading file: {e}", <<Str(<<"Permission denied">>)>>)]

get_schema_path(artifact_path) ==
    LET artifact_name == artifact_path.name IN
    IF artifact_name \in DOMAIN ARTIFACT_SCHEMA_MAP
    THEN Path(CONTRACTS_DIR, ARTIFACT_SCHEMA_MAP[artifact_name])
    ELSE NoPath

-----------------------------------------------------------------------------
(* Validation functions *)

\* the f-string of validate_required_fields and of the domain validators
MissingField(field) == Msg("Missing required field: {field}", <<Str(<<field>>)>>)

\* [errors.append(missing(f)) for f in names if f not in data], in order
MissingOf(data, names) ==
    LET absent == SelectSeq(names, LAMBDA f : ~Has(data, f)) IN
    [i \in 1..Len(absent) |-> MissingField(absent[i])]

\* `if err := ...: errors.append(err)`
AppendIf(errors, err) == IF err # NoMsg THEN Append(errors, err) ELSE errors

\* jsonschema's check of the schema against its metaschema, for the keyword
\* the model's schemas use: a schema is an object, "required" an array
check_schema(schema) ==
    /\ schema.kind = "object"
    /\ schema.fields["required"].type \in {"absent", "array"}

\* jsonschema's iter_errors: every violation of the schema by the instance;
\* "required" constrains objects only
iter_errors(data, schema) ==
    IF data.kind # "object" \/ ~Has(schema, "required") THEN <<>>
    ELSE LET absent == SelectSeq(schema.fields["required"].text,
                                 LAMBDA f : ~Has(data, f)) IN
         [i \in 1..Len(absent) |->
            [json_path |-> Str(<<"$">>),
             message |-> Str(<<"'", absent[i], "' is a required property">>)]]

\* jsonschema.validate raises best_match(iter_errors): one violation, the
\* first of those of equal relevance
best_match(violations) == Head(violations)

validate_with_jsonschema(data, schema) ==
    IF ~check_schema(schema)
    THEN Returns(<<Msg("Schema error: {e.message}",
                       <<Str(<<"is not valid under any of the given schemas">>)>>)>>)
    ELSE LET violations == iter_errors(data, schema) IN
         IF violations = <<>> THEN Returns(<<>>)
         ELSE LET e == best_match(violations) IN
              Returns(<<Msg("{e.json_path}: {e.message}", <<e.json_path, e.message>>)>>)

\* line 136: errors = [], a list of this call alone
list_of_last_call == result.errors
new_list == <<>>

validate_required_fields(data, schema) ==
    IF schema.kind # "object" THEN Raises("AttributeError")     \* list.get
    ELSE LET required == IF Has(schema, "required")
                         THEN schema.fields["required"] ELSE Arr(<<>>) IN
         IF required.type # "array" THEN Raises("TypeError")    \* not iterable
         ELSE Returns(new_list \o MissingOf(data, required.text))

validate_enum(value, valid_values, field_name) ==
    IF value # None /\ ~InList(value, valid_values)
    THEN Msg("Invalid {field_name}: '{value}' (valid: {', '.join(valid_values)})",
             <<Str(<<field_name>>), value, Str(valid_values)>>)
    ELSE NoMsg

\* datetime.fromisoformat accepts; the strings of the model are split so that
\* a trailing "Z" is a piece of its own
ISO_FORMATS == {<<"2024-01-01T00:00:00">>, <<"2024-01-01">>}
fromisoformat(pieces) == pieces \in ISO_FORMATS

validate_timestamp(value) ==
    IF ~Truthy(value) THEN [msg |-> Msg("Empty timestamp", <<>>), exc |-> "none"]
    ELSE IF value.type # "string" THEN [msg |-> NoMsg, exc |-> "AttributeError"]
    ELSE LET parsed == IF value.text[Len(value.text)] = "Z"
                       THEN fromisoformat(SubSeq(value.text, 1, Len(value.text) - 1))
                       ELSE fromisoformat(value.text) IN
         IF parsed THEN [msg |-> NoMsg, exc |-> "none"]
         ELSE [msg |-> Msg("Invalid timestamp format: '{value}' (expected ISO 8601)",
                           <<value>>),
               exc |-> "none"]

BlockedWarning ==
    Msg("Status is 'blocked' but no blocking_issues provided (warning)", <<>>)

\* line 190
blocked_key_absent(data) ==
    Get(data, "status") = Str(<<"blocked">>) /\ ~Has(data, "blocking_issues")
blocked_without_issues(data) ==
    Get(data, "status") = Str(<<"blocked">>) /\ ~Truthy(Get(data, "blocking_issues"))

validate_stage_completion_signal(data) ==
    LET e1 == MissingOf(data, <<"agent", "stage", "status", "timestamp">>) IN
    IF data.kind # "object" THEN Raises("AttributeError")       \* list.get
    ELSE
    LET e2 == AppendIf(e1, validate_enum(Get(data, "agent"), VALID_AGENTS, "agent"))
        e3 == AppendIf(e2, validate_enum(Get(data, "stage"), VALID_STAGES, "stage"))
        e4 == AppendIf(e3, validate_enum(Get(data, "status"), VALID_STATUSES, "status"))
        ts == IF Has(data, "timestamp")
              THEN validate_timestamp(data.fields["timestamp"])
              ELSE [msg |-> NoMsg, exc |-> "none"]
    IN  IF ts.exc # "none" THEN Raises(ts.exc)
        ELSE LET e5 == AppendIf(e4, ts.msg) IN
             IF blocked_without_issues(data)
             THEN Returns(Append(e5, BlockedWarning))
             ELSE Returns(e5)

validate_workflow_state(data) ==
    LET e1 == MissingOf(data, <<"workflow_id", "execution_mode", "current_stage",
                                "stages", "created_at", "updated_at">>) IN
    IF data.kind # "object" THEN Raises("AttributeError")       \* list.get
    ELSE LET mode == Get(data, "execution_mode") IN
         IF Truthy(mode) /\ ~InList(mode, VALID_MODES)
         THEN Returns(Append(e1, Msg("Invalid execution_mode: '{mode}'", <<mode>>)))
         ELSE Returns(e1)

-----------------------------------------------------------------------------
(* Main validation *)

\* what a validate_artifact call yields: the returned tuple, or the exception
\* that leaves it, with the calls it made, in order
Outcome(success, errors, exc, calls) ==
    [success |-> success, errors |-> errors, exc |-> exc, calls |-> calls]
NoOutcome == Outcome(FALSE, <<>>, "none", <<>>)     \* before any call

\* line 230: return False, [err]
load_failure_empty(err, calls) == Outcome(FALSE, <<>>, "none", calls)
load_failure(err, calls) == Outcome(FALSE, <<err>>, "none", calls)

\* lines 240 and 244: return True, [] after the warning
no_schema_fails(calls) ==
    Outcome(FALSE, <<Msg("Schema not found", <<>>)>>, "none", calls)
no_schema(calls) == Outcome(TRUE, <<>>, "none", calls)

\* line 251: return False, [f"Schema error: {err}"]
schema_failure_unmarked(err, calls) == Outcome(FALSE, <<err>>, "none", calls)
schema_failure(err, calls) ==
    Outcome(FALSE, <<Msg("Schema error: {err}", <<Str(<<err.fmt>>)>> \o err.args)>>,
            "none", calls)

\* line 267: return len(errors) == 0, errors
finish_always_true(errors, calls) == Outcome(TRUE, errors, "none", calls)
finish(errors, calls) == Outcome(Len(errors) = 0, errors, "none", calls)

\* errors.extend(more)
extend_in_front(errors, more) == more \o errors
extend(errors, more) == errors \o more

\* lines 256-265: the fallback tier
fallback(artifact_path, data, schema, calls) ==
    LET c1 == Append(calls, "validate_required_fields")
        r == validate_required_fields(data, schema)
        artifact_name == artifact_path.name
    IN  IF r.exc # "none" THEN Outcome(FALSE, <<>>, r.exc, c1)
        ELSE IF artifact_name = "stage-completion-signal.json"
        THEN LET d == validate_stage_completion_signal(data)
                 c2 == Append(c1, "validate_stage_completion_signal") IN
             IF d.exc # "none" THEN Outcome(FALSE, <<>>, d.exc, c2)
             ELSE finish(extend(r.errors, d.errors), c2)
        ELSE IF artifact_name = "workflow-state.json"
        THEN LET d == validate_workflow_state(data)
                 c2 == Append(c1, "validate_workflow_state") IN
             IF d.exc # "none" THEN Outcome(FALSE, <<>>, d.exc, c2)
             ELSE finish(extend(r.errors, d.errors), c2)
        ELSE finish(r.errors, c1)

validate_artifact(artifact_path, schema_path) ==
    LET a == load_json(artifact_path)
        c1 == <<"load_json(artifact)">>
    IN
    IF a.err # NoMsg THEN load_failure(a.err, c1)
    ELSE
    LET resolved == IF schema_path = NoPath THEN get_schema_path(artifact_path)
                    ELSE schema_path
        c2 == IF schema_path = NoPath THEN Append(c1, "get_schema_path") ELSE c1
    IN
    IF resolved = NoPath THEN no_schema(c2)
    ELSE
    LET c3 == Append(c2, "exists(schema)") IN
    IF ~exists(resolved) THEN no_schema(c3)
    ELSE
    LET s == load_json(resolved)
        c4 == Append(c3, "load_json(schema)")
    IN
    IF s.err # NoMsg THEN schema_failure(s.err, c4)
    ELSE IF HAS_JSONSCHEMA
    THEN finish(validate_with_jsonschema(a.data, s.data).errors,
                Append(c4, "validate_with_jsonschema"))
    ELSE fallback(artifact_path, a.data, s.data, c4)

\* validate_file: the success flag, or the exception passing through
validate_file(artifact_path, schema_path) ==
    validate_artifact(artifact_path, schema_path)

-----------------------------------------------------------------------------
(* The documents, schemas and trees the runs are made on *)

SignalDoc(agent, stage, status, timestamp, blocking_issues) ==
    Obj([k \in {"agent", "stage", "status", "timestamp", "blocking_issues"} |->
            CASE k = "agent" -> agent
              [] k = "stage" -> stage
              [] k = "status" -> status
              [] k = "timestamp" -> timestamp
              [] OTHER -> blocking_issues])

WorkflowDoc(workflow_id, execution_mode, rest) ==
    Obj([k \in {"workflow_id", "execution_mode", "current_stage", "stages",
                "created_at", "updated_at"} |->
            CASE k = "workflow_id" -> workflow_id
              [] k = "execution_mode" -> execution_mode
              [] OTHER -> rest])

SchemaDoc(required) == Obj([k \in {"required"} |-> required])

AgentValues == {Absent, None, Str(<<"product_manager">>), Str(<<"intern">>)}
StageValues == {Absent, Str(<<"requirements">>), Str(<<"lunch">>)}
StatusValues == {Absent, Str(<<"completed">>), Str(<<"blocked">>), Str(<<"paused">>)}
TimestampValues ==
    {Absent, Str(<<>>), Str(<<"2024-01-01T00:00:00", "Z">>),
     Str(<<"2024-01-01T00:00:00">>), Str(<<"yesterday">>), Num("1704067200")}
BlockingValues == {Absent, Arr(<<>>), Arr(<<"db-down">>)}
ModeValues == {Absent, None, Str(<<>>), Str(<<"full_system">>), Str(<<"turbo">>)}

SignalDocs ==
    {SignalDoc(a, g, s, t, b) :
        a \in AgentValues, g \in StageValues, s \in StatusValues,
        t \in TimestampValues, b \in BlockingValues}
WorkflowDocs ==
    {WorkflowDoc(w, m, r) :
        w \in {Absent, Str(<<"wf-1">>)}, m \in ModeValues,
        r \in {Absent, Str(<<"x">>)}}
Docs == SignalDocs \cup WorkflowDocs \cup {EmptyArrayDoc}

ArtifactFiles == {Missing, BadJson, Unreadable} \cup {Json(d) : d \in Docs}

SchemaFiles ==
    {Missing, BadJson, Unreadable,
     Json(SchemaDoc(Absent)),
     Json(SchemaDoc(Arr(<<"agent", "timestamp">>))),
     Json(SchemaDoc(Arr(<<"workflow_id", "execution_mode">>))),
     Json(SchemaDoc(Num("5"))),
     Json(EmptyArrayDoc)}

ArtifactNames ==
    {"stage-completion-signal.json", "workflow-state.json",
     "qa-test-report.json", "notes.json"}

CustomSchema == Path(<<"schemas">>, "custom-schema.json")

Args(mode, artifact, schema) == [mode |-> mode, artifact |-> artifact, schema |-> schema]

\* the disk holding the artifact, the schema of the registry and a schema of
\* the user's
DiskOf(artifact, file, registered, custom) ==
    [p \in {artifact, get_schema_path(artifact), CustomSchema} \ {NoPath} |->
        IF p = artifact THEN file
        ELSE IF p = CustomSchema THEN custom ELSE registered]

-----------------------------------------------------------------------------
(* `validate <artifact> [schema]` *)

Init ==
    /\ \E name \in ArtifactNames, file \in ArtifactFiles,
          registered \in SchemaFiles, custom \in SchemaFiles,
          explicit \in BOOLEAN :
          LET artifact == Path(ARTIFACTS_DIR, name) IN
          /\ explicit \/ custom = Missing
          /\ explicit => registered \in {Missing, Json(SchemaDoc(Absent))}
          /\ argv = Args("file", artifact, IF explicit THEN CustomSchema ELSE NoPath)
          /\ disk = DiskOf(artifact, file, registered, custom)
    /\ artifacts_dir = TRUE
    /\ HAS_JSONSCHEMA \in BOOLEAN
    /\ pc = "main"
    /\ result = NoOutcome
    /\ prev = NoOutcome
    /\ runs = 0
    /\ todo = {}
    /\ visits = <<>>
    /\ total = 0
    /\ passed = 0
    /\ failed = 0
    /\ summary = FALSE
    /\ exit_code = -1

\* lines 375-378, one process from its start to sys.exit; an exception that
\* leaves main ends the process with status 1
MainValidateFile ==
    /\ argv.mode = "file"
    /\ runs < MaxRuns
    /\ LET r == validate_file(argv.artifact, argv.schema) IN
       /\ result' = r
       /\ exit_code' = IF r.exc = "none" /\ r.success THEN 0 ELSE 1
    /\ prev' = result
    /\ runs' = runs + 1
    /\ pc' = "exit"
    /\ UNCHANGED <<disk, artifacts_dir, HAS_JSONSCHEMA, argv, todo, visits,
                   total, passed, failed, summary>>

Next == MainValidateFile

Spec == Init /\ [][Next]_vars

-----------------------------------------------------------------------------
(* `validate --all` *)

ValidSignal ==
    SignalDoc(Str(<<"product_manager">>), Str(<<"requirements">>),
              Str(<<"completed">>), Str(<<"2024-01-01T00:00:00", "Z">>), Absent)
BlockedSignal ==
    SignalDoc(Str(<<"product_manager">>), Str(<<"requirements">>),
              Str(<<"blocked">>), Str(<<"2024-01-01T00:00:00", "Z">>), Absent)
EpochSignal ==
    SignalDoc(Str(<<"product_manager">>), Str(<<"requirements">>),
              Str(<<"completed">>), Num("1704067200"), Absent)

\* the files a tree is made of: name and content
BatchFiles ==
    {[name |-> "stage-completion-signal.json", file |-> Json(ValidSignal)],
     [name |-> "stage-completion-signal.json", file |-> Json(BlockedSignal)],
     [name |-> "stage-completion-signal.json", file |-> Json(EpochSignal)],
     [name |-> "notes.json", file |-> BadJson],
     [name |-> "notes.json", file |-> Json(ValidSignal)]}

SignalSchema == Path(CONTRACTS_DIR, "stage-completion-signal-schema.json")

\* the i-th file of a tree lies i - 1 directories below the artifacts root
DirOf(i) == [j \in 1..i |-> IF j = 1 THEN ARTIFACTS_DIR[1] ELSE "sub"]
TreeOf(chosen) ==
    LET paths == {Path(DirOf(i), chosen[i].name) : i \in DOMAIN chosen} IN
    [p \in paths \cup {SignalSchema} |->
        IF p = SignalSchema THEN Json(SchemaDoc(Arr(<<"agent", "timestamp">>)))
        ELSE chosen[Len(p.dir)].file]

\* ARTIFACTS_DIR.rglob("*.json")
rglob(root) == {p \in DOMAIN disk : p.dir # <<>> /\ p.dir[1] = root[1] /\ exists(p)}

InitAll ==
    /\ \E n \in 0..MaxFiles : \E chosen \in [1..n -> BatchFiles] :
          disk = TreeOf(chosen)
    /\ artifacts_dir \in BOOLEAN
    /\ artifacts_dir \/ rglob(ARTIFACTS_DIR) = {}
    /\ HAS_JSONSCHEMA \in BOOLEAN
    /\ argv = Args("--all", NoPath, NoPath)
    /\ pc = "main"
    /\ result = NoOutcome
    /\ prev = NoOutcome
    /\ runs = 0
    /\ todo = {}
    /\ visits = <<>>
    /\ total = 0
    /\ passed = 0
    /\ failed = 0
    /\ summary = FALSE
    /\ exit_code = -1

\* lines 296-298, and sys.exit(1) of line 374
ValidateAllNoDir ==
    /\ pc = "main"
    /\ argv.mode = "--all"
    /\ ~artifacts_dir
    /\ pc' = "exit"
    /\ exit_code' = 1
    /\ UNCHANGED <<disk, artifacts_dir, HAS_JSONSCHEMA, argv, result, prev, runs,
                   todo, visits, total, passed, failed, summary>>

\* lines 300-304: the counters, and the enumeration the loop runs over
ValidateAllBegin ==
    /\ pc = "main"
    /\ argv.mode = "--all"
    /\ artifacts_dir
    /\ total' = 0
    /\ passed' = 0
    /\ failed' = 0
    /\ todo' = rglob(ARTIFACTS_DIR)
    /\ visits' = [p \in rglob(ARTIFACTS_DIR) |-> 0]
    /\ pc' = "loop"
    /\ UNCHANGED <<disk, artifacts_dir, HAS_JSONSCHEMA, argv, result, prev, runs,
                   summary, exit_code>>

\* lines 304-309, one iteration, on whichever file the traversal yields next;
\* an exception leaving validate_file leaves validate_all and main, and the
\* process ends with status 1
ValidateAllStep ==
    /\ pc = "loop"
    /\ \E artifact \in todo :
          LET r == validate_file(artifact, NoPath) IN
          /\ todo' = todo \ {artifact}
          /\ visits' = [visits EXCEPT ![artifact] = @ + 1]
          /\ total' = total + 1
          /\ result' = r
          /\ IF r.exc # "none"
             THEN /\ pc' = "exit"
                  /\ exit_code' = 1
                  /\ UNCHANGED <<passed, failed>>
             ELSE /\ passed' = IF r.success THEN passed + 1 ELSE passed
                  /\ failed' = IF r.success THEN failed ELSE failed + 1
                  /\ UNCHANGED <<pc, exit_code>>
    /\ prev' = result
    /\ runs' = runs + 1
    /\ UNCHANGED <<disk, artifacts_dir, HAS_JSONSCHEMA, argv, summary>>

\* lines 311-320, and sys.exit of line 374
ValidateAllSummary ==
    /\ pc = "loop"
    /\ todo = {}
    /\ summary' = TRUE
    /\ exit_code' = IF failed > 0 THEN 1 ELSE 0
    /\ pc' = "exit"
    /\ UNCHANGED <<disk, artifacts_dir, HAS_JSONSCHEMA, argv, result, prev, runs,
                   todo, visits, total, passed, failed>>

NextAll ==
    \/ ValidateAllNoDir
    \/ ValidateAllBegin
    \/ ValidateAllStep
    \/ ValidateAllSummary

SpecAll == InitAll /\ [][NextAll]_vars

-----------------------------------------------------------------------------
(* Properties of validate_artifact, on the runs of `validate <artifact>    *)
(* [schema]`                                                               *)

\* the last call returned (no exception left it)
Returned == runs > 0 /\ result.exc = "none"

Called(fn) == \E i \in 1..Len(result.calls) : result.calls[i] = fn

SchemaSteps == {"get_schema_path", "exists(schema)", "load_json(schema)"}
Validators ==
    {"validate_with_jsonschema", "validate_required_fields",
     "validate_stage_completion_signal", "validate_workflow_state"}

\* the schema path the run settles on
Resolved ==
    IF argv.schema = NoPath THEN get_schema_path(argv.artifact) ELSE argv.schema

ArtifactLoads == disk[argv.artifact].st = "ok"
SchemaLoads == Resolved # NoPath /\ Resolved \in DOMAIN disk /\ disk[Resolved].st = "ok"

\* C1: when loading the artifact fails (not found, invalid JSON, other read
\* error) the call returns success=false with exactly one error, the
\* loader's, and takes no schema step: the schema path is not resolved, not
\* tested for existence, not loaded.
C1_LoadFailureIsTerminal ==
    (runs > 0 /\ ~ArtifactLoads) =>
        /\ result.exc = "none"
        /\ result.success = FALSE
        /\ Len(result.errors) = 1
        /\ result.errors[1] = load_json(argv.artifact).err
        /\ result.errors[1] # NoMsg
        /\ \A fn \in SchemaSteps \cup Validators : ~Called(fn)

C1_Witness ==
    /\ runs > 0
    /\ disk[argv.artifact].st = "badjson"
    /\ exists(Resolved)
    /\ result.errors[1].fmt = "Invalid JSON syntax: {e}"

\* C2: for an artifact that loads, when no schema is resolvable or the
\* schema path is not on disk, the call returns success=true with no error,
\* whatever the document and the tier, and runs no validator.
C2_NoSchemaPasses ==
    (runs > 0 /\ ArtifactLoads /\ (Resolved = NoPath \/ ~exists(Resolved))) =>
        /\ result.exc = "none"
        /\ result.success = TRUE
        /\ result.errors = <<>>
        /\ \A fn \in Validators \cup {"load_json(schema)"} : ~Called(fn)

C2_Witness ==
    /\ runs > 0
    /\ ArtifactLoads
    /\ argv.schema = NoPath
    /\ Resolved # NoPath
    /\ ~exists(Resolved)
    /\ disk[argv.artifact].doc.kind = "object"
    /\ ~Has(disk[argv.artifact].doc, "agent")
    /\ ~HAS_JSONSCHEMA
    /\ result.success

\* C3: on every return of validate_artifact, success holds exactly when the
\* error list is empty.
C3_SuccessIffNoErrors ==
    Returned => (result.success <=> result.errors = <<>>)

C3_Witness ==
    /\ Returned
    /\ Called("validate_stage_completion_signal")
    /\ Len(result.errors) >= 2
    /\ ~result.success

-----------------------------------------------------------------------------
(* Properties of the batch run, on the runs of `validate --all` *)

\* the JSON files under the artifacts root, and the invalid ones among them:
\* those validate_artifact does not return success=true for
BatchN == Cardinality(rglob(ARTIFACTS_DIR))
Invalid(p) ==
    LET r == validate_artifact(p, NoPath) IN ~(r.exc = "none" /\ r.success)
BatchK == Cardinality({p \in rglob(ARTIFACTS_DIR) : Invalid(p)})

\* C4: over N files under the artifacts root of which K are invalid, the
\* counters add up (total = passed + failed) at every turn of the loop, and
\* the run ends with total = N, failed = K, passed = N - K and exit status 1
\* exactly when K > 0, 0 otherwise.
C4_BatchCounters ==
    /\ pc = "loop" => total = passed + failed
    /\ (pc = "exit" /\ artifacts_dir) =>
          /\ total = passed + failed
          /\ total = BatchN
          /\ failed = BatchK
          /\ passed = BatchN - BatchK
          /\ exit_code = (IF BatchK > 0 THEN 1 ELSE 0)

\* C5: a batch run over an artifacts root hands every enumerated file to
\* validate_file exactly once, whatever the order and whatever the files
\* before it yielded, and ends having printed the summary.
C5_EveryFileOnce ==
    /\ \A p \in DOMAIN visits : visits[p] <= 1
    /\ (pc = "exit" /\ artifacts_dir) =>
          /\ summary
          /\ DOMAIN visits = rglob(ARTIFACTS_DIR)
          /\ \A p \in DOMAIN visits : visits[p] = 1

-----------------------------------------------------------------------------
(* Properties of the validators, on the runs of `validate <artifact>       *)
(* [schema]`                                                               *)

TheData == disk[argv.artifact].doc
TheSchema == disk[Resolved].doc

InSeq(x, seq) == \E i \in 1..Len(seq) : seq[i] = x

\* the enum checks of the two domain validators
EnumChecks ==
    {[validator |-> "validate_stage_completion_signal", field |-> "agent",
      valid |-> VALID_AGENTS],
     [validator |-> "validate_stage_completion_signal", field |-> "stage",
      valid |-> VALID_STAGES],
     [validator |-> "validate_stage_completion_signal", field |-> "status",
      valid |-> VALID_STATUSES],
     [validator |-> "validate_workflow_state", field |-> "execution_mode",
      valid |-> VALID_MODES]}

\* m is an invalid-enum finding about the field
InvalidEnumFinding(m, field) ==
    \/ /\ m.fmt = "Invalid {field_name}: '{value}' (valid: {', '.join(valid_values)})"
       /\ m.args[1] = Str(<<field>>)
    \/ /\ m.fmt = "Invalid execution_mode: '{mode}'"
       /\ field = "execution_mode"

\* C6: for each enum field a domain validator checks, a present value outside
\* the registered set yields exactly one invalid-enum finding, naming the
\* value and the valid set.
C6_OneFindingPerBadEnum ==
    \A c \in EnumChecks :
        (Returned /\ Called(c.validator) /\ Has(TheData, c.field)
            /\ ~InList(TheData.fields[c.field], c.valid)) =>
        LET found == {i \in 1..Len(result.errors) :
                        InvalidEnumFinding(result.errors[i], c.field)} IN
        /\ Cardinality(found) = 1
        /\ \A i \in found :
              /\ InSeq(TheData.fields[c.field], result.errors[i].args)
              /\ InSeq(Str(c.valid), result.errors[i].args)

\* the findings of the domain validator the fallback tier runs for the name
DomainFindings ==
    IF argv.artifact.name = "stage-completion-signal.json"
    THEN validate_stage_completion_signal(TheData).errors
    ELSE IF argv.artifact.name = "workflow-state.json"
    THEN validate_workflow_state(TheData).errors
    ELSE <<>>

\* C7: once artifact and schema are loaded, the error list holds every
\* violation the active tier detects in the document: m violations, m
\* findings, in the conformance tier as in the fallback tier.
C7_AllViolationsCollected ==
    (Returned /\ ArtifactLoads /\ SchemaLoads) =>
        IF HAS_JSONSCHEMA
        THEN check_schema(TheSchema) =>
                Len(result.errors) = Len(iter_errors(TheData, TheSchema))
        ELSE Len(result.errors) =
                Len(validate_required_fields(TheData, TheSchema).errors)
                + Len(DomainFindings)

\* a stage-completion signal with its four required fields, valid enums, a
\* valid timestamp and status 'blocked'
BlockedAndWellFormed(data) ==
    /\ data.kind = "object"
    /\ \A f \in {"agent", "stage", "status", "timestamp"} : Has(data, f)
    /\ InList(data.fields["agent"], VALID_AGENTS)
    /\ InList(data.fields["stage"], VALID_STAGES)
    /\ data.fields["status"] = Str(<<"blocked">>)
    /\ data.fields["timestamp"].type = "string"
    /\ validate_timestamp(data.fields["timestamp"]) = [msg |-> NoMsg, exc |-> "none"]

\* C8: for such a document with blocking_issues absent or empty the
\* validator's list holds the blocked warning and the engine that ran the
\* validator returns success=false; with a non-empty blocking_issues there
\* is no such finding.
C8_BlockedWithoutIssuesFails ==
    (runs > 0 /\ ArtifactLoads /\ BlockedAndWellFormed(TheData)) =>
        LET v == validate_stage_completion_signal(TheData) IN
        /\ v.exc = "none"
        /\ IF ~Truthy(Get(TheData, "blocking_issues"))
           THEN /\ InSeq(BlockedWarning, v.errors)
                /\ Called("validate_stage_completion_signal") =>
                      /\ Returned
                      /\ ~result.success
                      /\ InSeq(BlockedWarning, result.errors)
           ELSE /\ ~InSeq(BlockedWarning, v.errors)
                /\ ~InSeq(BlockedWarning, result.errors)

C8_Witness ==
    /\ Returned
    /\ BlockedAndWellFormed(TheData)
    /\ TheData.fields["blocking_issues"] = Arr(<<>>)
    /\ Called("validate_stage_completion_signal")
    /\ result.errors = <<BlockedWarning>>
    /\ ~result.success

C10_TiersExclusive ==
    (Returned /\ ArtifactLoads /\ SchemaLoads) =>
        IF HAS_JSONSCHEMA
        THEN /\ result.errors = validate_with_jsonschema(TheData, TheSchema).errors
             /\ Called("validate_with_jsonschema")
             /\ ~Called("validate_required_fields")
             /\ ~Called("validate_stage_completion_signal")
             /\ ~Called("validate_workflow_state")
        ELSE /\ result.errors =
                    validate_required_fields(TheData, TheSchema).errors
                    \o DomainFindings
             /\ ~Called("validate_with_jsonschema")
             /\ Called("validate_required_fields")
             /\ Called("validate_stage_completion_signal")
                    <=> argv.artifact.name = "stage-completion-signal.json"
             /\ Called("validate_workflow_state")
                    <=> argv.artifact.name = "workflow-state.json"

C10_Witness ==
    /\ Returned
    /\ ~HAS_JSONSCHEMA
    /\ argv.schema # NoPath
    /\ argv.artifact.name = "stage-completion-signal.json"
    /\ validate_required_fields(TheData, TheSchema).errors # <<>>
    /\ DomainFindings # <<>>
    /\ Head(result.errors) = MissingField("agent")
    /\ result.errors[Len(result.errors)] = BlockedWarning

\* m is marked as a schema error: its text starts with "Schema error: "
IsSchemaError(m) ==
    m.fmt \in {"Schema error: {err}", "Schema error: {e.message}"}

\* m is a violation of the schema by the document: path, then message
IsDocumentViolation(m) == m.fmt = "{e.json_path}: {e.message}"

\* the schema file is there and is not a schema: not an object, or with a
\* "required" that is not an array
SchemaMalformed ==
    /\ SchemaLoads
    /\ (TheSchema.kind # "object"
        \/ TheSchema.fields["required"].type \notin {"absent", "array"})

SignalFindings ==
    SubSeq(result.errors,
           Len(validate_required_fields(TheData, TheSchema).errors) + 1,
           Len(result.errors))

\* the document is a well-formed stage-completion signal
SignalWellFormed(data) ==
    /\ data.kind = "object"
    /\ \A f \in {"agent", "stage", "status", "timestamp"} : Has(data, f)
    /\ InList(data.fields["agent"], VALID_AGENTS)
    /\ InList(data.fields["stage"], VALID_STAGES)
    /\ InList(data.fields["status"], VALID_STATUSES)
    /\ data.fields["timestamp"].type = "string"
    /\ data.fields["timestamp"].text # <<>>
    /\ LET t == data.fields["timestamp"].text IN
       \/ t \in ISO_FORMATS
       \/ (t[Len(t)] = "Z" /\ SubSeq(t, 1, Len(t) - 1) \in ISO_FORMATS)
    /\ ~(data.fields["status"] = Str(<<"blocked">>)
         /\ ~Truthy(Get(data, "blocking_issues")))

\* C12: the stage-completion-signal validator's list is empty exactly when
\* agent, stage, status and timestamp are present, agent, stage and status
\* hold a value of their registered set, timestamp is a valid ISO-8601
\* string (a trailing 'Z' accepted) and status is not 'blocked' with absent
\* or empty blocking_issues; each absent required field has its
\* missing-required-field error in the list.
C12_EmptyIffWellFormed ==
    (Returned /\ Called("validate_stage_completion_signal")) =>
        /\ SignalFindings = <<>> <=> SignalWellFormed(TheData)
        /\ \A f \in {"agent", "stage", "status", "timestamp"} :
              ~Has(TheData, f) => InSeq(MissingField(f), SignalFindings)

====
